---- MODULE Spec2Model ----
(***************************************************************************)
(* The WebVTT normaliser (src/lib/vttParser.ts), the results table         *)
(* (src/components/ResultsTable.tsx), the extract-requirements route and   *)
(* the pages of transcription-to-stories.                                  *)
(*                                                                         *)
(* A JavaScript string is a TLA+ string; a character is a string of        *)
(* length 1.  Positions are 1-based, as in Sequences; the loop index i of  *)
(* parseVTT keeps the source's 0-based value.                              *)
(***************************************************************************)
EXTENDS Integers, Sequences, FiniteSets, TLC

(***************************************************************************)
(* Bounds of the model.                                                    *)
(***************************************************************************)
\* longest input enumerated exhaustively over Alphabet
MaxLen == 4
\* longest TEXT enumerated inside a voice-tag line
MaxText == 3

(***************************************************************************)
(* Characters and the JavaScript string primitives the code uses.          *)
(***************************************************************************)
Ch(s, p) == SubSeq(s, p, p)

LowerLetters == "abcdefghijklmnopqrstuvwxyz"
UpperLetters == "ABCDEFGHIJKLMNOPQRSTUVWXYZ"
Digits == "0123456789"

CharsOf(s) == {Ch(s, p) : p \in 1..Len(s)}

\* \s of a JavaScript regular expression, and the characters trim() removes
SpaceChars == {" ", "\t", "\n", "\r", "\f"}
IsSpace(c) == c \in SpaceChars

\* \w of a JavaScript regular expression
WordChars == CharsOf(LowerLetters) \cup CharsOf(UpperLetters) \cup CharsOf(Digits) \cup {"_"}
IsWord(c) == c \in WordChars

\* the class [.,!?;:]
PunctChars == {".", ",", "!", "?", ";", ":"}
IsPunct(c) == c \in PunctChars

\* the characters '.' of a regular expression does not match
LineTerminators == {"\n", "\r"}

RECURSIVE PosIn(_, _, _)
PosIn(c, s, p) ==
  IF p > Len(s) THEN 0
  ELSE IF Ch(s, p) = c THEN p
  ELSE PosIn(c, s, p + 1)

\* String.prototype.toUpperCase on one character
ToUpperChar(c) ==
  LET k == PosIn(c, LowerLetters, 1)
  IN  IF k = 0 THEN c ELSE Ch(UpperLetters, k)

ToLowerChar(c) ==
  LET k == PosIn(c, UpperLetters, 1)
  IN  IF k = 0 THEN c ELSE Ch(LowerLetters, k)

RECURSIVE ToLowerStr(_)
ToLowerStr(s) ==
  IF s = "" THEN "" ELSE ToLowerChar(Head(s)) \o ToLowerStr(Tail(s))

\* does t occur in s at position p
StartsWithAt(s, p, t) ==
  /\ p >= 1
  /\ p + Len(t) - 1 <= Len(s)
  /\ SubSeq(s, p, p + Len(t) - 1) = t

\* the same, ignoring case (the i flag)
StartsWithAtCI(s, p, t) ==
  /\ p >= 1
  /\ p + Len(t) - 1 <= Len(s)
  /\ ToLowerStr(SubSeq(s, p, p + Len(t) - 1)) = ToLowerStr(t)

\* String.prototype.startsWith
StartsWith(s, t) == StartsWithAt(s, 1, t)

\* the first position >= p at which t occurs in s, or 0
RECURSIVE IndexOfFrom(_, _, _)
IndexOfFrom(s, t, p) ==
  IF p + Len(t) - 1 > Len(s) THEN 0
  ELSE IF StartsWithAt(s, p, t) THEN p
  ELSE IndexOfFrom(s, t, p + 1)

\* String.prototype.includes
Includes(s, t) == IndexOfFrom(s, t, 1) # 0

\* String.prototype.split with a non-empty separator
RECURSIVE SplitFrom(_, _, _)
SplitFrom(s, sep, p) ==
  LET q == IndexOfFrom(s, sep, p)
  IN  IF q = 0 THEN <<SubSeq(s, p, Len(s))>>
      ELSE <<SubSeq(s, p, q - 1)>> \o SplitFrom(s, sep, q + Len(sep))

Split(s, sep) == SplitFrom(s, sep, 1)

\* the first position >= p holding a non-space character, or Len(s) + 1
RECURSIVE SkipSpaces(_, _)
SkipSpaces(s, p) ==
  IF p > Len(s) \/ ~IsSpace(Ch(s, p)) THEN p ELSE SkipSpaces(s, p + 1)

\* the last position <= p holding a non-space character, or 0
RECURSIVE SkipSpacesBack(_, _)
SkipSpacesBack(s, p) ==
  IF p < 1 \/ ~IsSpace(Ch(s, p)) THEN p ELSE SkipSpacesBack(s, p - 1)

\* String.prototype.trim
Trim(s) == SubSeq(s, SkipSpaces(s, 1), SkipSpacesBack(s, Len(s)))

\* Array.prototype.join
RECURSIVE Join(_, _)
Join(xs, sep) ==
  IF xs = <<>> THEN ""
  ELSE IF Len(xs) = 1 THEN xs[1]
  ELSE xs[1] \o sep \o Join(Tail(xs), sep)

\* the first position >= p holding a non-word character, or Len(s) + 1
RECURSIVE SkipWord(_, _)
SkipWord(s, p) ==
  IF p > Len(s) \/ ~IsWord(Ch(s, p)) THEN p ELSE SkipWord(s, p + 1)

(***************************************************************************)
(* enhanceTranscript: each replace(/re/g, ...) is a left-to-right scan of  *)
(* the string it is applied to; a match is replaced and the scan resumes   *)
(* after it, a position without a match is copied and the scan moves on by *)
(* one.                                                                    *)
(***************************************************************************)
\* replace(/<v[^>]*>/gi, '')
RECURSIVE RemoveOpenVoiceFrom(_, _)
RemoveOpenVoiceFrom(s, p) ==
  IF p > Len(s) THEN ""
  ELSE LET q == IF StartsWithAtCI(s, p, "<v") THEN IndexOfFrom(s, ">", p + 2) ELSE 0
       IN  IF q # 0 THEN RemoveOpenVoiceFrom(s, q + 1)
           ELSE Ch(s, p) \o RemoveOpenVoiceFrom(s, p + 1)

RemoveOpenVoiceTags(s) == RemoveOpenVoiceFrom(s, 1)

\* replace(/<\/v>/gi, '')
RECURSIVE RemoveCloseVoiceFrom(_, _)
RemoveCloseVoiceFrom(s, p) ==
  IF p > Len(s) THEN ""
  ELSE IF StartsWithAtCI(s, p, "</v>") THEN RemoveCloseVoiceFrom(s, p + 4)
  ELSE Ch(s, p) \o RemoveCloseVoiceFrom(s, p + 1)

RemoveCloseVoiceTags(s) == RemoveCloseVoiceFrom(s, 1)

\* replace(/<[^>]+>/g, ''): [^>]+ needs one character, so "<>" is no match
RECURSIVE RemoveTagsFrom(_, _)
RemoveTagsFrom(s, p) ==
  IF p > Len(s) THEN ""
  ELSE LET q == IF Ch(s, p) = "<" THEN IndexOfFrom(s, ">", p + 1) ELSE 0
       IN  IF q >= p + 2 THEN RemoveTagsFrom(s, q + 1)
           ELSE Ch(s, p) \o RemoveTagsFrom(s, p + 1)

RemoveOtherTags(s) == RemoveTagsFrom(s, 1)

\* no collapse at all
CollapseNone(s) == s

\* replace(/\s+/g, ' ')
RECURSIVE CollapseFrom(_, _)
CollapseFrom(s, p) ==
  IF p > Len(s) THEN ""
  ELSE IF IsSpace(Ch(s, p)) THEN " " \o CollapseFrom(s, SkipSpaces(s, p))
  ELSE Ch(s, p) \o CollapseFrom(s, p + 1)

CollapseSpaces(s) == CollapseFrom(s, 1)

\* replace(/\s+([.,!?;:])/g, '$1')
RECURSIVE SpaceBeforeFrom(_, _)
SpaceBeforeFrom(s, p) ==
  IF p > Len(s) THEN ""
  ELSE LET q == SkipSpaces(s, p)
       IN  IF IsSpace(Ch(s, p)) /\ q <= Len(s) /\ IsPunct(Ch(s, q))
           THEN Ch(s, q) \o SpaceBeforeFrom(s, q + 1)
           ELSE Ch(s, p) \o SpaceBeforeFrom(s, p + 1)

FixSpaceBeforePunct(s) == SpaceBeforeFrom(s, 1)

\* replace(/([.,!?;:])(\S)/g, '$1 $2')
RECURSIVE SpaceAfterFrom(_, _)
SpaceAfterFrom(s, p) ==
  IF p > Len(s) THEN ""
  ELSE IF IsPunct(Ch(s, p)) /\ p + 1 <= Len(s) /\ ~IsSpace(Ch(s, p + 1))
       THEN Ch(s, p) \o " " \o Ch(s, p + 1) \o SpaceAfterFrom(s, p + 2)
       ELSE Ch(s, p) \o SpaceAfterFrom(s, p + 1)

FixSpaceAfterPunct(s) == SpaceAfterFrom(s, 1)

\* The end of a match of /\b(\w+)\s+\1\b/i starting at p, or 0.  \b and the
\* greedy \w+ make group 1 the whole word starting at p; \s+ takes the whole
\* run of spaces after it; \1 compares ignoring case; the last \b wants the
\* copy to end a word.  Returns the position after the match.
RepeatedWordEnd(s, p) ==
  IF ~(IsWord(Ch(s, p)) /\ (p = 1 \/ ~IsWord(Ch(s, p - 1)))) THEN 0
  ELSE LET e == SkipWord(s, p)
           f == SkipSpaces(s, e)
           w == SubSeq(s, p, e - 1)
           g == f + Len(w)
       IN  IF /\ f > e
              /\ StartsWithAtCI(s, f, w)
              /\ (g > Len(s) \/ ~IsWord(Ch(s, g)))
           THEN g ELSE 0

\* replace(/\b(\w+)\s+\1\b/gi, '$1')
RECURSIVE RepeatedFrom(_, _)
RepeatedFrom(s, p) ==
  IF p > Len(s) THEN ""
  ELSE LET g == RepeatedWordEnd(s, p)
       IN  IF g # 0 THEN SubSeq(s, p, SkipWord(s, p) - 1) \o RepeatedFrom(s, g)
           ELSE Ch(s, p) \o RepeatedFrom(s, p + 1)

RemoveRepeatedWords(s) == RepeatedFrom(s, 1)

\* replace(/(^\w|\.\s+\w)/g, (match) => match.toUpperCase())
RECURSIVE CapitalizeFrom(_, _)
CapitalizeFrom(s, p) ==
  IF p > Len(s) THEN ""
  ELSE IF p = 1 /\ IsWord(Ch(s, 1))
       THEN ToUpperChar(Ch(s, 1)) \o CapitalizeFrom(s, 2)
  ELSE LET q == SkipSpaces(s, p + 1)
       IN  IF Ch(s, p) = "." /\ q > p + 1 /\ q <= Len(s) /\ IsWord(Ch(s, q))
           THEN SubSeq(s, p, q - 1) \o ToUpperChar(Ch(s, q)) \o CapitalizeFrom(s, q + 1)
           ELSE Ch(s, p) \o CapitalizeFrom(s, p + 1)

CapitalizeSentences(s) == CapitalizeFrom(s, 1)

\* the tag removal without the pass of line 77
StripVoiceTagsOnly(s) == RemoveCloseVoiceTags(RemoveOpenVoiceTags(s))

\* the tag removal of lines 75-77
StripTags(s) == RemoveOtherTags(RemoveCloseVoiceTags(RemoveOpenVoiceTags(s)))

enhanceTranscript(text) ==
  LET e1 == StripTags(text)
      e2 == CollapseSpaces(e1)
      e3 == FixSpaceBeforePunct(e2)
      e4 == FixSpaceAfterPunct(e3)
      e5 == RemoveRepeatedWords(e4)
      e6 == CapitalizeSentences(e5)
  IN  Trim(CollapseSpaces(e6))

(***************************************************************************)
(* parseVTT: the classification of one line (the body of the for loop).    *)
(***************************************************************************)
\* line.match(/<v[^>]*>(.*?)<\/v>/) tried at position p: the opening tag
\* ends at the first '>', the lazy group ends at the first "</v>" after it
\* and may not cross a line terminator
VoiceMatchAt(line, p) ==
  LET q == IF StartsWithAt(line, p, "<v") THEN IndexOfFrom(line, ">", p + 2) ELSE 0
      r == IF q = 0 THEN 0 ELSE IndexOfFrom(line, "</v>", q + 1)
  IN  IF r # 0 /\ \A k \in (q + 1)..(r - 1) : Ch(line, k) \notin LineTerminators
      THEN [found |-> TRUE, group |-> SubSeq(line, q + 1, r - 1)]
      ELSE [found |-> FALSE, group |-> ""]

RECURSIVE VoiceMatchFrom(_, _)
VoiceMatchFrom(line, p) ==
  IF p > Len(line) THEN [found |-> FALSE, group |-> ""]
  ELSE IF VoiceMatchAt(line, p).found THEN VoiceMatchAt(line, p)
  ELSE VoiceMatchFrom(line, p + 1)

VoiceMatch(line) == VoiceMatchFrom(line, 1)

\* the tests of lines 20, 25, 31 and 37, in the order the code makes them
IsHeaderOrBlank(line) == line = "WEBVTT" \/ line = ""
IsIdLineFromThree(line) == Includes(line, "-") /\ Len(Split(line, "-")) >= 3
IsIdLine(line) == Includes(line, "-") /\ Len(Split(line, "-")) >= 4
IsTimestampLine(line) == Includes(line, "-->")
IsVoiceLine(line) == StartsWith(line, "<v ")

\* the classification with the voice test before the identifier test
LineKindVoiceFirst(line) ==
  IF IsHeaderOrBlank(line) THEN "header"
  ELSE IF IsVoiceLine(line) THEN "voice"
  ELSE IF IsIdLine(line) THEN "id"
  ELSE IF IsTimestampLine(line) THEN "timestamp"
  ELSE "text"

LineKind(line) ==
  IF IsHeaderOrBlank(line) THEN "header"
  ELSE IF IsIdLine(line) THEN "id"
  ELSE IF IsTimestampLine(line) THEN "timestamp"
  ELSE IF IsVoiceLine(line) THEN "voice"
  ELSE "text"

\* the text of a voice-tag line that is pushed (lines 38-41), as 0 or 1 lines
VoicePush(line) ==
  LET m == VoiceMatch(line)
  IN  IF m.found /\ m.group # "" THEN <<m.group>> ELSE <<>>

\* the text of a plain line that is pushed (lines 47-49), as 0 or 1 lines
TextPush(line, skip) ==
  IF ~skip /\ line # "" THEN <<line>> ELSE <<>>

\* the loop body with the voice branch obeying skipNext like the last branch
LoopBodyVoiceSuppressed(line, skip, acc) ==
  LET kind == LineKind(line)
  IN  IF kind = "header" THEN [skipNext |-> skip, transcriptLines |-> acc]
      ELSE IF kind \in {"id", "timestamp"} THEN [skipNext |-> TRUE, transcriptLines |-> acc]
      ELSE IF kind = "voice"
           THEN [skipNext |-> FALSE,
                 transcriptLines |-> IF skip THEN acc ELSE acc \o VoicePush(line)]
      ELSE [skipNext |-> FALSE, transcriptLines |-> acc \o TextPush(line, skip)]

\* one iteration of the loop on the trimmed line: the new skipNext and
\* transcriptLines
LoopBody(line, skip, acc) ==
  LET kind == LineKind(line)
  IN  IF kind = "header" THEN [skipNext |-> skip, transcriptLines |-> acc]
      ELSE IF kind \in {"id", "timestamp"} THEN [skipNext |-> TRUE, transcriptLines |-> acc]
      ELSE IF kind = "voice"
           THEN [skipNext |-> FALSE, transcriptLines |-> acc \o VoicePush(line)]
      ELSE [skipNext |-> FALSE, transcriptLines |-> acc \o TextPush(line, skip)]

\* lines 55 and 59
Assemble(acc) == enhanceTranscript(Trim(Join(acc, " ")))

\* the whole function, as the loop computes it from line k on
RECURSIVE ParseFrom(_, _, _, _)
ParseFrom(ls, k, skip, acc) ==
  IF k > Len(ls) THEN Assemble(acc)
  ELSE LET st == LoopBody(Trim(ls[k]), skip, acc)
       IN  ParseFrom(ls, k + 1, st.skipNext, st.transcriptLines)

parseVTT(vtt) == ParseFrom(Split(vtt, "\n"), 1, FALSE, <<>>)

(***************************************************************************)
(* The inputs of the model.                                                *)
(***************************************************************************)
\* the characters of the exhaustively enumerated inputs
Alphabet == {"a", " ", "\n", "-", "<", ">", "."}

\* every string over cs of length at most n
RECURSIVE StringsUpTo(_, _)
StringsUpTo(cs, n) ==
  IF n = 0 THEN {""}
  ELSE LET shorter == StringsUpTo(cs, n - 1)
       IN  shorter \cup {s \o c : s \in shorter, c \in cs}

\* documents and lines of the kinds the parser is written for
ExampleTiming == "00:00:01.000 --> 00:00:02.000\nHello hello world.\n"
ExampleVoice == "<v John>Hi there.</v>"
ExampleNumberId == "WEBVTT\n\n1\n00:00:01.000 --> 00:00:02.000\nHello there.\n"
ExampleUuidId ==
  "WEBVTT\n\n7f3a-11-22-9/4-0\n00:00:01.000 --> 00:00:02.000\n<v John>Hi there.</v>\n"
ExampleHeaderText == "WEBVTT Kind: captions\n\nHello there.\n"
ExampleCrLf == "WEBVTT\r\n\r\nHello there.\r\n"

\* a tag followed by a space at the start of the dialogue
ExampleTagThenSpace == "<b> so. it"

Examples ==
  {ExampleTiming, ExampleVoice, ExampleNumberId, ExampleUuidId,
   ExampleHeaderText, ExampleCrLf, "x -<b>-> y", "The the THE end",
   ExampleTagThenSpace}

Inputs == Examples \cup StringsUpTo(Alphabet, MaxLen)

(***************************************************************************)
(* ResultsTable: a record is the sequence of its <<key, value>> pairs in   *)
(* the order Object.keys lists them; keys and values are strings.          *)
(***************************************************************************)
\* Object.keys(story)
ObjectKeys(story) == [k \in 1..Len(story) |-> story[k][1]]

HasKey(story, key) == \E k \in 1..Len(story) : story[k][1] = key

\* story[key], for a key the record has
ValueOf(story, key) == story[CHOOSE k \in 1..Len(story) : story[k][1] = key][2]

Range(xs) == {xs[k] : k \in 1..Len(xs)}

\* Set.prototype.add on a set kept in insertion order
SetAdd(hs, key) == IF key \in Range(hs) THEN hs ELSE Append(hs, key)

RECURSIVE AddAll(_, _)
AddAll(hs, keys) ==
  IF keys = <<>> THEN hs ELSE AddAll(SetAdd(hs, Head(keys)), Tail(keys))

\* every key pushed to an array: no Set, so a key seen twice is kept twice
RECURSIVE getHeadersArray(_)
getHeadersArray(rs) ==
  IF rs = <<>> THEN <<>> ELSE ObjectKeys(Head(rs)) \o getHeadersArray(Tail(rs))

RECURSIVE HeadersFrom(_, _)
HeadersFrom(hs, rs) ==
  IF rs = <<>> THEN hs ELSE HeadersFrom(AddAll(hs, ObjectKeys(Head(rs))), Tail(rs))

\* getHeaders: Array.from of the Set the keys were added to
getHeaders(rs) == HeadersFrom(<<>>, rs)

\* header.replace(/([A-Z])/g, ' $1'): a space before every capital letter
RECURSIVE SpaceBeforeCapitals(_)
SpaceBeforeCapitals(s) ==
  IF s = "" THEN ""
  ELSE (IF Head(s) \in CharsOf(UpperLetters) THEN " " ELSE "")
         \o Head(s) \o SpaceBeforeCapitals(Tail(s))

\* replace(/^\w/, c => c.toUpperCase())
CapitalizeFirst(s) ==
  IF s # "" /\ IsWord(Head(s)) THEN ToUpperChar(Head(s)) \o Tail(s) ELSE s

\* the text of a <th>: the key in display form
DisplayHeader(header) == CapitalizeFirst(Trim(SpaceBeforeCapitals(header)))

\* a header row made of the display forms
HeaderRowDisplay(headers) ==
  Join([k \in 1..Len(headers) |-> DisplayHeader(headers[k])], "\t")

\* headers.join('\t'): the keys themselves
HeaderRow(headers) == Join(headers, "\t")

\* row[header] || ''
CellOf(row, header) ==
  IF HasKey(row, header) /\ ValueOf(row, header) # "" THEN ValueOf(row, header) ELSE ""

\* results.filter((_, index) => selectedRows.has(index)): index is 0-based
RECURSIVE FilterSelected(_, _, _)
FilterSelected(rs, selected, index) ==
  IF rs = <<>> THEN <<>>
  ELSE (IF index \in selected THEN <<Head(rs)>> ELSE <<>>)
         \o FilterSelected(Tail(rs), selected, index + 1)

\* the filter with the index counted from 1
RowsToCopyOneBased(rs, selected) ==
  IF Cardinality(selected) > 0 THEN FilterSelected(rs, selected, 1) ELSE rs

RowsToCopy(rs, selected) ==
  IF Cardinality(selected) > 0 THEN FilterSelected(rs, selected, 0) ELSE rs

\* headers.map(header => row[header] || '').join('\t')
DataRow(row, headers) == Join([k \in 1..Len(headers) |-> CellOf(row, headers[k])], "\t")

\* the text copyToClipboard builds
TsvContent(rs, selected) ==
  LET headers == getHeaders(rs)
      rowsToCopy == RowsToCopy(rs, selected)
      headerRow == HeaderRow(headers)
      dataRows == Join([k \in 1..Len(rowsToCopy) |-> DataRow(rowsToCopy[k], headers)], "\n")
  IN  headerRow \o "\n" \o dataRows

\* most records of a result collection
MaxRecords == 2

\* the records of the model: keys shared and not shared, in different
\* orders, empty values, values holding the separators of the TSV
RecordAB == << <<"a", "1">>, <<"b", "2">> >>
RecordAC == << <<"a", "3">>, <<"c", "4">> >>
RecordBA == << <<"b", "5">>, <<"a", "6">> >>
RecordEmptyValue == << <<"c", "">>, <<"b", "7">> >>
RecordTab == << <<"c", "x\ty">> >>
RecordNewline == << <<"a", "x\ny">>, <<"c", "8">> >>
RecordStory == << <<"userStory", "As a user">>, <<"epicName", "Login">> >>
RecordPool ==
  {RecordAB, RecordAC, RecordBA, RecordEmptyValue, RecordTab, RecordNewline, RecordStory}

RECURSIVE SeqsUpTo(_, _)
SeqsUpTo(S, n) ==
  IF n = 0 THEN {<<>>}
  ELSE LET shorter == SeqsUpTo(S, n - 1)
       IN  shorter \cup {Append(xs, x) : xs \in shorter, x \in S}

ResultSets == SeqsUpTo(RecordPool, MaxRecords)

ExampleRecords == <<RecordAB, RecordAC>>

(***************************************************************************)
(* The extract-requirements route: the value JSON.parse returns is a       *)
(* record naming its type t, with the text of a string in s, the           *)
(* truthiness of a number or boolean in b, the elements of an array in     *)
(* items and the <<key, value>> pairs of an object, in Object.keys order,  *)
(* in fields.                                                              *)
(***************************************************************************)
JValue(t, s, b, items, fields) ==
  [t |-> t, s |-> s, b |-> b, items |-> items, fields |-> fields]

JUndefined == JValue("undefined", "", FALSE, <<>>, <<>>)
JNull == JValue("null", "", FALSE, <<>>, <<>>)
JZero == JValue("number", "0", FALSE, <<>>, <<>>)
JFive == JValue("number", "5", TRUE, <<>>, <<>>)
JBool(b) == JValue("boolean", "", b, <<>>, <<>>)
JStr(s) == JValue("string", s, FALSE, <<>>, <<>>)
JArr(items) == JValue("array", "", FALSE, items, <<>>)
JObj(fields) == JValue("object", "", FALSE, <<>>, fields)

\* Array.isArray(v)
IsArray(v) == v.t = "array"

\* the truthiness of v, as && and || and if test it
Truthy(v) ==
  CASE v.t \in {"undefined", "null"} -> FALSE
    [] v.t \in {"number", "boolean"} -> v.b
    [] v.t = "string" -> v.s # ""
    [] OTHER -> TRUE

\* Object.keys(v): the field names of an object, the indexes of a string,
\* nothing for a number or a boolean (arrays do not reach the call)
KeysOf(v) ==
  CASE v.t = "object" -> [k \in 1..Len(v.fields) |-> v.fields[k][1]]
    [] v.t = "string" -> [k \in 1..Len(v.s) |-> Ch(Digits, k)]
    [] OTHER -> <<>>

\* v[key] for v neither null nor undefined
Get(v, key) ==
  CASE v.t = "object" ->
         IF \E k \in 1..Len(v.fields) : v.fields[k][1] = key
         THEN v.fields[CHOOSE k \in 1..Len(v.fields) : v.fields[k][1] = key][2]
         ELSE JUndefined
    [] v.t = "string" ->
         IF \E k \in 1..Len(v.s) : Ch(Digits, k) = key
         THEN JStr(Ch(v.s, CHOOSE k \in 1..Len(v.s) : Ch(Digits, k) = key))
         ELSE JUndefined
    [] OTHER -> JUndefined

\* allKeys.find(key => Array.isArray(parsed[key])): the first such key, or
\* undefined
RECURSIVE FindArrayKey(_, _, _)
FindArrayKey(v, keys, k) ==
  IF k > Len(keys) THEN [found |-> FALSE, key |-> ""]
  ELSE IF IsArray(Get(v, keys[k])) THEN [found |-> TRUE, key |-> keys[k]]
  ELSE FindArrayKey(v, keys, k + 1)

\* the outcomes of the try block: userStories assigned, or a TypeError
Assigned(stories) == [threw |-> FALSE, userStories |-> stories]
TypeError == [threw |-> TRUE, userStories |-> <<>>]

\* the chain with the two named fields tried in the other order
SelectStoriesRequirementsFirst(parsed) ==
  IF IsArray(parsed) THEN Assigned(parsed.items)
  ELSE IF parsed.t = "null" THEN TypeError
  ELSE IF Truthy(Get(parsed, "requirements")) /\ IsArray(Get(parsed, "requirements"))
       THEN Assigned(Get(parsed, "requirements").items)
  ELSE IF Truthy(Get(parsed, "userStories")) /\ IsArray(Get(parsed, "userStories"))
       THEN Assigned(Get(parsed, "userStories").items)
  ELSE Assigned(<<>>)

\* lines 300-332: the choice of userStories from the parsed value; reading
\* a property of null throws
SelectStories(parsed) ==
  IF IsArray(parsed) THEN Assigned(parsed.items)
  ELSE IF parsed.t = "null" THEN TypeError
  ELSE IF Truthy(Get(parsed, "userStories")) /\ IsArray(Get(parsed, "userStories"))
       THEN Assigned(Get(parsed, "userStories").items)
  ELSE IF Truthy(Get(parsed, "requirements")) /\ IsArray(Get(parsed, "requirements"))
       THEN Assigned(Get(parsed, "requirements").items)
  ELSE LET firstArrayKey == FindArrayKey(parsed, KeysOf(parsed), 1)
       IN  IF firstArrayKey.found /\ firstArrayKey.key # ""
           THEN Assigned(Get(parsed, firstArrayKey.key).items)
           ELSE IF \/ Truthy(Get(parsed, "epicName"))
                   \/ Truthy(Get(parsed, "requirement"))
                   \/ Truthy(Get(parsed, "userStory"))
                THEN Assigned(<<parsed>>)
                ELSE Assigned(<<>>)

\* the two responses of the handler
Success(stories) == [ok |-> TRUE, userStories |-> stories, error |-> ""]
Failure == [ok |-> FALSE, userStories |-> <<>>, error |-> "Failed to extract requirements"]
NoResponse == [ok |-> FALSE, userStories |-> <<>>, error |-> ""]

\* most fields of an object payload
MaxFields == 2

StoryLogin == JObj(<< <<"epicName", JStr("Login")>>, <<"userStory", JStr("As a user")>> >>)
StoryExport == JObj(<< <<"epicName", JStr("Export")>> >>)

ScalarPayloads == {JNull, JZero, JFive, JStr(""), JStr("ab"), JBool(TRUE), JBool(FALSE)}
ArrayPayloads == {JArr(<<>>), JArr(<<StoryLogin>>), JArr(<<StoryExport>>),
                  JArr(<<StoryLogin, StoryExport>>)}
FieldKeys == {"userStories", "requirements", "stories", "epicName", "userStory", ""}
FieldValues == {JNull, JStr(""), JStr("x"), JArr(<<>>), JArr(<<StoryLogin>>),
                JArr(<<StoryExport>>)}

\* the objects: their keys are distinct
DistinctKeys(fields) ==
  \A x, y \in 1..Len(fields) : x # y => fields[x][1] # fields[y][1]
ObjectPayloads ==
  {JObj(fields) : fields \in {fs \in SeqsUpTo(FieldKeys \X FieldValues, MaxFields) :
                                DistinctKeys(fs)}}

\* completion.output_text: nothing, text that is not JSON, or JSON text,
\* given by the value it parses to
EmptyContent == [kind |-> "empty", value |-> JUndefined]
InvalidContent == [kind |-> "invalid", value |-> JUndefined]
JsonContent(v) == [kind |-> "json", value |-> v]
Contents ==
  {EmptyContent, InvalidContent}
    \cup {JsonContent(v) : v \in ScalarPayloads \cup ArrayPayloads \cup ObjectPayloads}

(***************************************************************************)
(* parseVTT as a state machine: one step per iteration of the for loop of  *)
(* lines 16-52, then the assembly of lines 55-65.                          *)
(***************************************************************************)
VARIABLES
  vttContent,         \* the argument
  lines,              \* vttContent.split('\n')
  i,                  \* the loop index, 0-based
  skipNext,
  transcriptLines,
  cleanedTranscript,  \* the returned string, "" until the return
  pc,                 \* "idle", "loop", "returned", or "threw" (an exception left the call)
  results,            \* the results prop of ResultsTable
  selectedRows,       \* its state: the selected row indexes, 0-based
  copied,             \* its state: the "Copied!" flag
  tsvContent,         \* the text the step just taken passed to clipboard.writeText
  content,            \* the route: completion.output_text
  routePc,            \* "idle", "received", "decoded", "caught" or "done"
  userStories,        \* the route: the variable the try block assigns
  response,           \* the route: what the handler returned
  uploadedFiles,      \* the page: the contents of the chosen files
  textInput,
  loading,
  error,
  usage,              \* "null" or "set"
  calls,              \* the calls of handleExtractUserStories made so far
  selectedPreloadedFiles,  \* the page with preloaded files: the names ticked
  loads               \* the calls of loadPreloadedFiles still fetching

pvars == <<vttContent, lines, i, skipNext, transcriptLines, cleanedTranscript, pc>>
tvars == <<results, selectedRows, copied, tsvContent>>
rvars == <<content, routePc, userStories, response>>
gvars == <<uploadedFiles, textInput, loading, error, usage, calls,
           selectedPreloadedFiles, loads>>
vars == <<pvars, tvars, rvars, gvars>>

\* no request has reached the route
RouteIdle ==
  /\ content = EmptyContent
  /\ routePc = "idle"
  /\ userStories = <<>>
  /\ response = NoResponse

\* the useState initial values of the page (lines 55-60)
PageInit ==
  /\ uploadedFiles = <<>>
  /\ textInput = ""
  /\ loading = FALSE
  /\ error = ""
  /\ usage = "null"
  /\ calls = <<>>
  /\ selectedPreloadedFiles = <<>>
  /\ loads = <<>>

NoCopy == [written |-> FALSE, text |-> ""]

\* the table as the page first renders it (useState([]), new Set(), false)
TableInit ==
  /\ results = <<>>
  /\ selectedRows = {}
  /\ copied = FALSE
  /\ tsvContent = NoCopy

\* no call of parseVTT is under way
ParserIdle ==
  /\ vttContent = ""
  /\ lines = <<>>
  /\ i = 0
  /\ skipNext = FALSE
  /\ transcriptLines = <<>>
  /\ cleanedTranscript = ""
  /\ pc = "idle"

\* lines[i]: undefined outside the array
LineAt(ls, k) ==
  IF k + 1 \in DOMAIN ls THEN [defined |-> TRUE, value |-> ls[k + 1]]
  ELSE [defined |-> FALSE, value |-> ""]

\* the loop condition with <= for <
LoopGuardInclusive(k, ls) == k <= Len(ls)

\* the loop condition of line 16
LoopGuard(k, ls) == k < Len(ls)

\* the state at line 16, before the first test of the loop condition
ParseInit(input) ==
  /\ vttContent = input
  /\ lines = Split(input, "\n")
  /\ i = 0
  /\ skipNext = FALSE
  /\ transcriptLines = <<>>
  /\ cleanedTranscript = ""
  /\ pc = "loop"

\* one iteration: lines[i].trim() throws a TypeError on undefined
Iterate ==
  /\ pc = "loop"
  /\ LoopGuard(i, lines)
  /\ LET raw == LineAt(lines, i)
     IN  IF ~raw.defined
         THEN /\ pc' = "threw"
              /\ UNCHANGED <<vttContent, lines, i, skipNext, transcriptLines, cleanedTranscript>>
              /\ UNCHANGED <<tvars, rvars, gvars>>
         ELSE LET st == LoopBody(Trim(raw.value), skipNext, transcriptLines)
              IN  /\ skipNext' = st.skipNext
                  /\ transcriptLines' = st.transcriptLines
                  /\ i' = i + 1
                  /\ UNCHANGED <<vttContent, lines, cleanedTranscript, pc>>
                  /\ UNCHANGED <<tvars, rvars, gvars>>

\* the loop is over: join, trim, enhance, return
Finish ==
  /\ pc = "loop"
  /\ ~LoopGuard(i, lines)
  /\ cleanedTranscript' = Assemble(transcriptLines)
  /\ pc' = "returned"
  /\ UNCHANGED <<vttContent, lines, i, skipNext, transcriptLines>>
  /\ UNCHANGED <<tvars, rvars, gvars>>

Init == TableInit /\ RouteIdle /\ PageInit /\ \E input \in Inputs : ParseInit(input)

Next == Iterate \/ Finish

Spec == Init /\ [][Next]_vars

(***************************************************************************)
(* Two more families of inputs for the same machine.                       *)
(***************************************************************************)
\* markup only: the three tag-removing passes work on each other's output
TagAlphabet == {"<", ">", "v", "/", "a"}
\* longest markup input
MaxTagLen == 5

\* longer markup: tags inside tags, tags that a removal brings together
TagExamples ==
  {"<</v>b>", "<<v >i>", "<v a><<b>c></v>", "<><b>x>", "<a<b>c>d>", "<V x>y</V><i>z</i>",
   "<v a>x</v>\n<<i>b>y</<b>b>"}

TagInputs == TagExamples \cup StringsUpTo(TagAlphabet, MaxTagLen)

InitTags == TableInit /\ RouteIdle /\ PageInit /\ \E input \in TagInputs : ParseInit(input)

SpecTags == InitTags /\ [][Next]_vars

\* a document of one voice-tag line, <v Speaker>TEXT</v>
VoiceLine(speaker, text) == "<v " \o speaker \o ">" \o text \o "</v>"
Speakers == {"John", "a b"}
TextAlphabet == {"a", "A", " ", "-", ".", "<", ">", "/", "v"}
VoiceTexts == {"Hi there."} \cup StringsUpTo(TextAlphabet, MaxText)

InitVoice == TableInit /\ RouteIdle /\ PageInit /\ \E sp \in Speakers, t \in VoiceTexts : ParseInit(VoiceLine(sp, t))

SpecVoice == InitVoice /\ [][Next]_vars

(***************************************************************************)
(* Inputs made of whole lines: every sequence of at most MaxCueLines lines *)
(* of CueLines, one line of each kind the loop tells apart.                *)
(***************************************************************************)
MaxCueLines == 3

CueLines ==
  {"", "WEBVTT", "1-2-3-4", "00:01 --> 00:02", "<v A>Hi.</v>", "<v A>a-b-c-d</v>",
   "<v A>", "Bye.", "1-2 --> 3-4"}

InitCues ==
  /\ TableInit /\ RouteIdle /\ PageInit
  /\ \E ls \in SeqsUpTo(CueLines, MaxCueLines) : ParseInit(Join(ls, "\n"))

SpecCues == InitCues /\ [][Next]_vars

(***************************************************************************)
(* ResultsTable as a state machine.  The table is rendered while results   *)
(* is not empty; its state outlives a change of the results prop.          *)
(***************************************************************************)
\* the results prop: null, or an array of records
NullProp == [isNull |-> TRUE, items |-> <<>>]
ArrayProp(rs) == [isNull |-> FALSE, items |-> rs]

\* a component without the early return of line 16
ShowsTableAlways(prop) == TRUE

\* the negation of line 16: !results || results.length === 0
ShowsTable(prop) == ~(prop.isNull \/ Len(prop.items) = 0)

\* what the component returns for null
NoOutput == [table |-> FALSE, headerCells |-> <<>>, copyButton |-> FALSE, rows |-> <<>>]

\* the element tree of lines 60-127: the header cells, the copy button, and
\* one row of cells per record
RenderTable(prop) ==
  IF ~ShowsTable(prop) THEN NoOutput
  ELSE LET headers == getHeaders(prop.items)
       IN  [table |-> TRUE,
            headerCells |-> <<"Select">> \o [k \in 1..Len(headers) |-> DisplayHeader(headers[k])],
            copyButton |-> TRUE,
            rows |-> [r \in 1..Len(prop.items) |->
                       [k \in 1..Len(headers) |-> CellOf(prop.items[r], headers[k])]]]

Rendered == ShowsTable(ArrayProp(results))

\* a toggle that only ever adds the index
ToggleAddOnly(selected, index) == selected \cup {index}

\* the set toggleRow builds: the index deleted when present, added when not
ToggleSet(selected, index) ==
  IF index \in selected THEN selected \ {index} ELSE selected \cup {index}

\* the page passes a new results prop (setResults)
SetResults(rs) ==
  /\ results' = rs
  /\ tsvContent' = NoCopy
  /\ UNCHANGED <<selectedRows, copied>>
  /\ UNCHANGED <<pvars, rvars, gvars>>

\* toggleRow(index), from the checkbox of a rendered row
toggleRow(index) ==
  /\ Rendered
  /\ index \in 0..(Len(results) - 1)
  /\ selectedRows' = ToggleSet(selectedRows, index)
  /\ tsvContent' = NoCopy
  /\ UNCHANGED <<results, copied>>
  /\ UNCHANGED <<pvars, rvars, gvars>>

\* copyToClipboard, from the button; writeText resolves or rejects
copyToClipboard ==
  /\ Rendered
  /\ tsvContent' = [written |-> TRUE, text |-> TsvContent(results, selectedRows)]
  /\ \E resolved \in BOOLEAN : copied' = (resolved \/ copied)
  /\ UNCHANGED <<results, selectedRows>>
  /\ UNCHANGED <<pvars, rvars, gvars>>

\* the timer of line 56
CopiedTimeout ==
  /\ copied
  /\ copied' = FALSE
  /\ tsvContent' = NoCopy
  /\ UNCHANGED <<results, selectedRows>>
  /\ UNCHANGED <<pvars, rvars, gvars>>

InitTable == ParserIdle /\ TableInit /\ RouteIdle /\ PageInit

NextTable ==
  \/ \E rs \in ResultSets : SetResults(rs)
  \/ \E index \in 0..(MaxRecords - 1) : toggleRow(index)
  \/ copyToClipboard
  \/ CopiedTimeout

SpecTable == InitTable /\ [][NextTable]_vars

(***************************************************************************)
(* The POST handler of the extract-requirements route, from the moment     *)
(* the completion has arrived.                                             *)
(***************************************************************************)
\* lines 284-342: the content test, JSON.parse and the choice of
\* userStories; every throw lands in the catch of line 379
RouteDecode ==
  /\ routePc = "received"
  /\ LET outcome == IF content.kind = "json" THEN SelectStories(content.value) ELSE TypeError
     IN  IF content.kind # "json" \/ outcome.threw
         THEN routePc' = "caught" /\ UNCHANGED userStories
         ELSE routePc' = "decoded" /\ userStories' = outcome.userStories
  /\ UNCHANGED <<content, response>>
  /\ UNCHANGED <<pvars, tvars, gvars>>

\* lines 366-377: the response with userStories and usage
RouteRespond ==
  /\ routePc = "decoded"
  /\ routePc' = "done"
  /\ response' = Success(userStories)
  /\ UNCHANGED <<content, userStories>>
  /\ UNCHANGED <<pvars, tvars, gvars>>

\* lines 379-386: the status 500 response
RouteCatch ==
  /\ routePc = "caught"
  /\ routePc' = "done"
  /\ response' = Failure
  /\ UNCHANGED <<content, userStories>>
  /\ UNCHANGED <<pvars, tvars, gvars>>

InitRoute ==
  /\ ParserIdle /\ TableInit /\ PageInit
  /\ content \in Contents
  /\ routePc = "received"
  /\ userStories = <<>>
  /\ response = NoResponse

NextRoute == RouteDecode \/ RouteRespond \/ RouteCatch

SpecRoute == InitRoute /\ [][NextRoute]_vars

(***************************************************************************)
(* The page: its inputs, the Extract button and the calls of               *)
(* handleExtractUserStories.  A call keeps the uploadedFiles its closure   *)
(* saw and the parts parsed so far; its phase is "reading" while a         *)
(* file.text() is awaited, "fetching" while the request is awaited, and    *)
(* then "done", "failed" (the catch of line 330) or "abandoned" (a return  *)
(* before the request).  A call past its reads no longer holds files or    *)
(* parts.                                                                  *)
(***************************************************************************)
\* most calls of handleExtractUserStories in a behaviour
MaxCalls == 2

FileSets == {<<"Hi.">>, <<"WEBVTT">>, <<"WEBVTT", "Hi.">>}
TextInputs == {"", " ", "Hi.", "WEBVTT"}
Responses == {<<>>, <<RecordStory>>, ExampleRecords}

ErrorBoth == "Please use either file upload or text input, not both."
ErrorNotVtt == "Please upload only .vtt files"
ErrorRead == "Failed to read files"
ErrorProcess == "Failed to process transcript. Please try again."

\* the text branch of getTranscriptText (lines 273-281)
TextTranscript(text) ==
  LET trimmedInput == Trim(text)
  IN  IF StartsWith(trimmedInput, "WEBVTT") \/ Includes(trimmedInput, "-->")
      THEN parseVTT(trimmedInput)
      ELSE trimmedInput

Call(phase, files, parts) == [phase |-> phase, files |-> files, parts |-> parts]

\* a call that has neither settled nor returned
Active(call) == call.phase \in {"reading", "fetching"}

\* the negation of the disabled attribute of the button (line 706)
ButtonEnabled == ~loading /\ ~(Len(uploadedFiles) = 0 /\ Trim(textInput) = "")

\* what every step of the page leaves alone
PageFrame ==
  /\ tsvContent' = NoCopy
  /\ UNCHANGED <<selectedRows, copied>>
  /\ UNCHANGED <<selectedPreloadedFiles, loads>>
  /\ UNCHANGED <<pvars, rvars>>

\* handleFileUpload with a non-empty file list
handleFileUpload(files, allVtt) ==
  /\ IF Trim(textInput) # "" THEN error' = ErrorBoth /\ UNCHANGED uploadedFiles
     ELSE IF ~allVtt THEN error' = ErrorNotVtt /\ UNCHANGED uploadedFiles
     ELSE uploadedFiles' = files /\ error' = ""
  /\ UNCHANGED <<textInput, loading, usage, calls, results>>
  /\ PageFrame

handleTextChange(value) ==
  /\ IF Len(uploadedFiles) > 0 THEN error' = ErrorBoth /\ UNCHANGED textInput
     ELSE textInput' = value /\ error' = ""
  /\ UNCHANGED <<uploadedFiles, loading, usage, calls, results>>
  /\ PageFrame

\* handleRemoveFile(index), index 0-based, from the list of files
handleRemoveFile(index) ==
  /\ index \in 0..(Len(uploadedFiles) - 1)
  /\ uploadedFiles' = SubSeq(uploadedFiles, 1, index)
                        \o SubSeq(uploadedFiles, index + 2, Len(uploadedFiles))
  /\ error' = ""
  /\ UNCHANGED <<textInput, loading, usage, calls, results>>
  /\ PageFrame

handleRemoveAllFiles ==
  /\ Len(uploadedFiles) > 0
  /\ uploadedFiles' = <<>>
  /\ error' = ""
  /\ UNCHANGED <<textInput, loading, usage, calls, results>>
  /\ PageFrame

handleClearText ==
  /\ textInput # ""
  /\ textInput' = ""
  /\ error' = ""
  /\ UNCHANGED <<uploadedFiles, loading, usage, calls, results>>
  /\ PageFrame

\* a click on the button: handleExtractUserStories up to its first await
\* that lets other events in.  With files that is the first file.text();
\* with text getTranscriptText returns without such an await and the call
\* goes on to setLoading(true) and the request, or returns on an empty
\* transcript.
handleExtractUserStories ==
  /\ ButtonEnabled
  /\ Len(calls) < MaxCalls
  /\ error' = ""
  /\ results' = <<>>
  /\ usage' = "null"
  /\ IF Len(uploadedFiles) > 0
     THEN /\ calls' = Append(calls, Call("reading", uploadedFiles, <<>>))
          /\ UNCHANGED loading
     ELSE IF TextTranscript(textInput) = ""
          THEN /\ calls' = Append(calls, Call("abandoned", <<>>, <<>>))
               /\ UNCHANGED loading
          ELSE /\ calls' = Append(calls, Call("fetching", <<>>, <<>>))
               /\ loading' = TRUE
  /\ UNCHANGED <<uploadedFiles, textInput>>
  /\ PageFrame

\* a file.text() of call id resolves: the file is parsed; after the last
\* file the parts are joined, and the call returns on an empty transcript
\* or sets loading and sends the request
FileTextResolved(id) ==
  /\ id \in 1..Len(calls)
  /\ calls[id].phase = "reading"
  /\ LET call == calls[id]
         parts == Append(call.parts, parseVTT(call.files[Len(call.parts) + 1]))
     IN  IF Len(parts) < Len(call.files)
         THEN /\ calls' = [calls EXCEPT ![id] = Call("reading", call.files, parts)]
              /\ UNCHANGED loading
         ELSE IF Join(parts, "\n\n") = ""
              THEN /\ calls' = [calls EXCEPT ![id] = Call("abandoned", <<>>, <<>>)]
                   /\ UNCHANGED loading
              ELSE /\ calls' = [calls EXCEPT ![id] = Call("fetching", <<>>, <<>>)]
                   /\ loading' = TRUE
  /\ UNCHANGED <<uploadedFiles, textInput, error, usage, results>>
  /\ PageFrame

\* a file.text() of call id rejects (the catch of line 268)
FileTextRejected(id) ==
  /\ id \in 1..Len(calls)
  /\ calls[id].phase = "reading"
  /\ error' = ErrorRead
  /\ calls' = [calls EXCEPT ![id] = Call("abandoned", <<>>, <<>>)]
  /\ UNCHANGED <<uploadedFiles, textInput, loading, usage, results>>
  /\ PageFrame

\* the request of call id is answered with status ok and JSON that holds
\* stories (lines 324-327), then the finally of line 333
ResponseDecoded(id, stories) ==
  /\ id \in 1..Len(calls)
  /\ calls[id].phase = "fetching"
  /\ results' = stories
  /\ usage' = "set"
  /\ loading' = FALSE
  /\ calls' = [calls EXCEPT ![id].phase = "done"]
  /\ UNCHANGED <<uploadedFiles, textInput, error>>
  /\ PageFrame

\* a failure handled without the finally block: loading stays as it is
RequestFailedNoFinally(id) ==
  /\ id \in 1..Len(calls)
  /\ calls[id].phase = "fetching"
  /\ error' = ErrorProcess
  /\ calls' = [calls EXCEPT ![id].phase = "failed"]
  /\ UNCHANGED <<uploadedFiles, textInput, usage, results, loading>>
  /\ PageFrame

\* the request of call id fails: fetch rejects, the status is not ok, or
\* the body is not JSON (the catch of line 330), then the finally
RequestFailed(id) ==
  /\ id \in 1..Len(calls)
  /\ calls[id].phase = "fetching"
  /\ error' = ErrorProcess
  /\ loading' = FALSE
  /\ calls' = [calls EXCEPT ![id].phase = "failed"]
  /\ UNCHANGED <<uploadedFiles, textInput, usage, results>>
  /\ PageFrame

InitPage == ParserIdle /\ TableInit /\ RouteIdle /\ PageInit

(***************************************************************************)
(* The page with preloaded files (part_001).  Its upload, text, remove and *)
(* clear handlers are those above, word for word; it adds the list of      *)
(* preloaded files that can be ticked and loaded.  selectedPreloadedFiles  *)
(* is the Set in insertion order; a load keeps the selection its closure   *)
(* saw while its fetches are awaited.                                      *)
(***************************************************************************)
\* most calls of loadPreloadedFiles fetching at once
MaxLoads == 2

PreloadedNames == {"AP transcript 1.vtt", "AP transcript 2.vtt"}

\* the text of a preloaded file
PreloadedContent(filename) == IF filename = "AP transcript 1.vtt" THEN "Hi." ELSE "WEBVTT"

ErrorPreload == "Failed to load pre-loaded files"

\* newSelected.delete(filename) on a Set kept in insertion order
RECURSIVE SetDelete(_, _)
SetDelete(hs, key) ==
  IF hs = <<>> THEN <<>>
  ELSE (IF Head(hs) = key THEN <<>> ELSE <<Head(hs)>>) \o SetDelete(Tail(hs), key)

\* what a step of the preloaded list leaves alone
PreloadFrame ==
  /\ tsvContent' = NoCopy
  /\ UNCHANGED <<selectedRows, copied, results>>
  /\ UNCHANGED <<loading, usage, calls>>
  /\ UNCHANGED <<pvars, rvars>>

togglePreloadedFile(filename) ==
  /\ IF Trim(textInput) # ""
     THEN error' = ErrorBoth /\ UNCHANGED selectedPreloadedFiles
     ELSE /\ selectedPreloadedFiles' =
               IF filename \in Range(selectedPreloadedFiles)
               THEN SetDelete(selectedPreloadedFiles, filename)
               ELSE SetAdd(selectedPreloadedFiles, filename)
          /\ error' = ""
  /\ UNCHANGED <<uploadedFiles, textInput, loads>>
  /\ PreloadFrame

\* a click on the load button, shown while something is ticked (line 369):
\* loadPreloadedFiles up to its first fetch
loadPreloadedFiles ==
  /\ Len(selectedPreloadedFiles) > 0
  /\ Len(loads) < MaxLoads
  /\ loads' = Append(loads, selectedPreloadedFiles)
  /\ UNCHANGED <<uploadedFiles, textInput, error, selectedPreloadedFiles>>
  /\ PreloadFrame

\* every fetch of load k was answered ok: the files replace uploadedFiles
PreloadFetched(k) ==
  /\ k \in 1..Len(loads)
  /\ uploadedFiles' = [n \in 1..Len(loads[k]) |-> PreloadedContent(loads[k][n])]
  /\ error' = ""
  /\ loads' = SubSeq(loads, 1, k - 1) \o SubSeq(loads, k + 1, Len(loads))
  /\ UNCHANGED <<textInput, selectedPreloadedFiles>>
  /\ PreloadFrame

\* a fetch of load k failed or was answered with a status that is not ok
PreloadFailed(k) ==
  /\ k \in 1..Len(loads)
  /\ error' = ErrorPreload
  /\ loads' = SubSeq(loads, 1, k - 1) \o SubSeq(loads, k + 1, Len(loads))
  /\ UNCHANGED <<uploadedFiles, textInput, selectedPreloadedFiles>>
  /\ PreloadFrame

NextPreload ==
  \/ \E files \in FileSets, allVtt \in BOOLEAN : handleFileUpload(files, allVtt)
  \/ \E value \in TextInputs : handleTextChange(value)
  \/ \E index \in 0..1 : handleRemoveFile(index)
  \/ handleRemoveAllFiles
  \/ handleClearText
  \/ \E filename \in PreloadedNames : togglePreloadedFile(filename)
  \/ loadPreloadedFiles
  \/ \E k \in 1..MaxLoads : PreloadFetched(k)
  \/ \E k \in 1..MaxLoads : PreloadFailed(k)

SpecPreload == InitPage /\ [][NextPreload]_vars

NextPage ==
  \/ \E files \in FileSets, allVtt \in BOOLEAN : handleFileUpload(files, allVtt)
  \/ \E value \in TextInputs : handleTextChange(value)
  \/ \E index \in 0..1 : handleRemoveFile(index)
  \/ handleRemoveAllFiles
  \/ handleClearText
  \/ handleExtractUserStories
  \/ \E id \in 1..MaxCalls : FileTextResolved(id)
  \/ \E id \in 1..MaxCalls : FileTextRejected(id)
  \/ \E id \in 1..MaxCalls, stories \in Responses : ResponseDecoded(id, stories)
  \/ \E id \in 1..MaxCalls : RequestFailed(id)

SpecPage == InitPage /\ [][NextPage]_vars

\* a request that was sent settles: it is answered or it fails
Settle == \E id \in 1..MaxCalls :
  (\E stories \in Responses : ResponseDecoded(id, stories)) \/ RequestFailed(id)

\* the page under the proviso that every request sent settles
SpecPageSettling == SpecPage /\ WF_vars(Settle)

(***************************************************************************)
(* Predicates on strings used to state the properties.                     *)
(***************************************************************************)
\* s holds '<', then one or more characters other than '>', then '>'
HasTag(s) ==
  \E p \in 1..Len(s) :
    /\ Ch(s, p) = "<"
    /\ \E q \in (p + 2)..Len(s) :
         /\ Ch(s, q) = ">"
         /\ \A k \in (p + 1)..(q - 1) : Ch(s, k) # ">"

\* s holds a word directly followed by white space and the same word again
HasRepeatedWord(s) == \E p \in 1..Len(s) : RepeatedWordEnd(s, p) # 0

Returned == pc = "returned"

\* the parts of an input of the form <v Speaker>TEXT</v>
SpeakerEnd(x) == IndexOfFrom(x, ">", 4)
IsVoiceDocument(x) ==
  /\ StartsWith(x, "<v ")
  /\ SpeakerEnd(x) # 0
  /\ SpeakerEnd(x) <= Len(x) - 4
  /\ StartsWithAt(x, Len(x) - 3, "</v>")
TextOf(x) == SubSeq(x, SpeakerEnd(x) + 1, Len(x) - 4)

(***************************************************************************)
(* The properties.                                                         *)
(***************************************************************************)
\* C1: for the input "00:00:01.000 --> 00:00:02.000\nHello hello world.\n"
\* the result of parseVTT is exactly "Hello world.".
C1_TimingThenDialogue ==
  (Returned /\ vttContent = ExampleTiming) => cleanedTranscript = "Hello world."

\* C2: the string returned by parseVTT contains neither "-->" nor "WEBVTT".
C2_NoArrowNoHeader ==
  Returned => /\ ~Includes(cleanedTranscript, "-->")
              /\ ~Includes(cleanedTranscript, "WEBVTT")

\* C3: the string returned by parseVTT contains no '<' followed by one or
\* more non-'>' characters and then '>'.
C3_NoTagInOutput == Returned => ~HasTag(cleanedTranscript)

\* C3 witness: the assembled dialogue had a tag, and text is left after the
\* tags were removed
C3_Witness ==
  /\ Returned
  /\ HasTag(Join(transcriptLines, " "))
  /\ cleanedTranscript # ""
  /\ Len(cleanedTranscript) < Len(Join(transcriptLines, " ")) - 3

\* C4: parseVTT is idempotent: parseVTT(parseVTT(x)) = parseVTT(x).
C4_Idempotent == Returned => parseVTT(cleanedTranscript) = cleanedTranscript

\* C5: the string returned by parseVTT contains no immediately repeated
\* word (ignoring case), also for runs of three or more equal words.
C5_NoRepeatedWord == Returned => ~HasRepeatedWord(cleanedTranscript)

\* C6: for a cue made of an identifier line (a bare number or a UUID-like
\* id), a timing line and dialogue, the identifier does not appear in the
\* returned string.
C6_NoCueIdentifier ==
  /\ (Returned /\ vttContent = ExampleNumberId) => ~Includes(cleanedTranscript, "1")
  /\ (Returned /\ vttContent = ExampleUuidId) => ~Includes(cleanedTranscript, "7f3a")

\* C7, as claimed: for a voice-tag line <v Speaker>TEXT</v> the returned
\* string contains TEXT and neither voice tag.
C7_VoiceTextVerbatim ==
  (Returned /\ IsVoiceDocument(vttContent)) =>
     /\ Includes(cleanedTranscript, TextOf(vttContent))
     /\ ~HasTag(cleanedTranscript)

\* the line is handled by the voice-tag branch and its group is TEXT: fewer
\* than 4 segments between hyphens, no "-->", and TEXT has no "</v>" and no
\* line break
VoiceLineKept(x) ==
  /\ IsVoiceDocument(x)
  /\ Len(Split(x, "-")) < 4
  /\ ~Includes(x, "-->")
  /\ ~Includes(TextOf(x), "</v>")
  /\ ~Includes(TextOf(x), "\n")
  /\ ~Includes(TextOf(x), "\r")

\* C7, amended: for such a line the returned string is TEXT after trimming
\* and post-processing (not TEXT verbatim) and holds no tag; for
\* <v John>Hi there.</v> it is exactly "Hi there.".
C7_VoiceTextEnhanced ==
  /\ (Returned /\ VoiceLineKept(vttContent)) =>
        /\ cleanedTranscript = enhanceTranscript(Trim(TextOf(vttContent)))
        /\ ~HasTag(cleanedTranscript)
  /\ (Returned /\ vttContent = ExampleVoice) => cleanedTranscript = "Hi there."

\* C7 witness: a voice-tag line whose text the post-processing changed
C7_Witness ==
  /\ Returned
  /\ VoiceLineKept(vttContent)
  /\ cleanedTranscript # ""
  /\ cleanedTranscript # TextOf(vttContent)

\* C8: parseVTT is total: no call ends in an exception, the index never
\* passes the end of the lines, and every step of a call either moves on by
\* one line or returns, so a call on n lines returns after n + 1 steps.
C8_Total ==
  /\ [](pc # "threw" /\ i \in 0..Len(lines))
  /\ [][pc = "loop" /\ (i' = i + 1 \/ pc' = "returned")]_vars

\* C8 witness: a malformed document (an unclosed tag, a lone arrow head) has
\* been parsed to the end
C8_Witness ==
  /\ Returned
  /\ Includes(vttContent, "<")
  /\ ~Includes(vttContent, ">")
  /\ Includes(vttContent, "-")
  /\ i = Len(lines)

\* the place a key is first seen: the first record that has it, and its
\* position among that record's keys
FirstRecord(rs, key) == CHOOSE r \in 1..Len(rs) :
  /\ HasKey(rs[r], key)
  /\ \A q \in 1..(r - 1) : ~HasKey(rs[q], key)
KeyIndex(story, key) == CHOOSE k \in 1..Len(story) : story[k][1] = key
SeenBefore(rs, k1, k2) ==
  \/ FirstRecord(rs, k1) < FirstRecord(rs, k2)
  \/ /\ FirstRecord(rs, k1) = FirstRecord(rs, k2)
     /\ KeyIndex(rs[FirstRecord(rs, k1)], k1) < KeyIndex(rs[FirstRecord(rs, k2)], k2)

\* C9: the header list is the union of the keys of all records, without
\* duplicates, in order of first appearance (records in sequence order,
\* keys in the record's own order); for [{a,b},{a,c}] it is [a,b,c].
C9_HeadersFirstSeen ==
  LET h == getHeaders(results)
  IN  /\ \A x, y \in 1..Len(h) : x # y => h[x] # h[y]
      /\ Range(h) = UNION {Range(ObjectKeys(results[r])) : r \in 1..Len(results)}
      /\ \A x, y \in 1..Len(h) : x < y => SeenBefore(results, h[x], h[y])
      /\ results = ExampleRecords => h = <<"a", "b", "c">>

\* C9 witness: the table shows the records of the example
C9_Witness == Rendered /\ results = ExampleRecords

\* the cells of one line of the TSV, for n columns
CellsOf(line, n) == IF n = 0 /\ line = "" THEN <<>> ELSE Split(line, "\t")

\* the cell the claim expects: the value under the key, empty when missing
ExpectedCell(row, header) == IF HasKey(row, header) THEN ValueOf(row, header) ELSE ""

\* C10: every data row of the TSV has exactly one cell per header, in
\* header order, holding the record's value under that key, or nothing when
\* the record lacks the key.
C10_OneCellPerHeader ==
  tsvContent.written =>
    LET h == getHeaders(results)
        rows == RowsToCopy(results, selectedRows)
        ls == Split(tsvContent.text, "\n")
    IN  /\ Len(ls) = 1 + (IF rows = <<>> THEN 1 ELSE Len(rows))
        /\ \A r \in 1..Len(rows) :
             CellsOf(ls[r + 1], Len(h)) = [k \in 1..Len(h) |-> ExpectedCell(rows[r], h[k])]

\* the first line of the TSV
FirstLine(text) == Split(text, "\n")[1]

\* C11: the first row of the TSV is the header row in display form (a camel
\* case key turned into space-separated words with the first letter
\* capitalised, userStory becoming "User Story").
C11_HeaderRowDisplayForm ==
  tsvContent.written => FirstLine(tsvContent.text) = HeaderRowDisplay(getHeaders(results))

\* C11, as the code has it: the first row of the TSV is the keys themselves,
\* joined by tabs; the display form is the text of the header cells of the
\* rendered table only, where userStory reads "User Story".
C11_HeaderRowRawKeys ==
  /\ tsvContent.written => FirstLine(tsvContent.text) = Join(getHeaders(results), "\t")
  /\ Rendered =>
       LET h == getHeaders(results)
           cells == RenderTable(ArrayProp(results)).headerCells
       IN  /\ Len(cells) = Len(h) + 1
           /\ \A k \in 1..Len(h) :
                h[k] = "userStory" => cells[k + 1] = "User Story"

\* C11 witness: the records with camel case keys have been copied
C11_Witness ==
  /\ tsvContent.written
  /\ results = <<RecordStory>>
  /\ FirstLine(tsvContent.text) = "userStory\tepicName"

\* the records at the selected indices (0-based), in their original order
RECURSIVE SelectedFrom(_, _)
SelectedFrom(rs, k) ==
  IF k > Len(rs) THEN <<>>
  ELSE (IF (k - 1) \in selectedRows THEN <<rs[k]>> ELSE <<>>) \o SelectedFrom(rs, k + 1)

\* C12: with an empty selection the TSV holds one data row per record; with
\* a non-empty selection it holds the rows of exactly the records whose
\* index is selected, in their original order.
C12_ExportSelection ==
  tsvContent.written =>
    LET h == getHeaders(results)
        expected == IF selectedRows = {} THEN results ELSE SelectedFrom(results, 1)
    IN  tsvContent.text =
          Join(h, "\t") \o "\n"
            \o Join([k \in 1..Len(expected) |-> DataRow(expected[k], h)], "\n")

\* C12 witness: of two records only the second is selected and copied
C12_Witness ==
  /\ tsvContent.written
  /\ results = ExampleRecords
  /\ selectedRows = {1}
  /\ tsvContent.text = "a\tb\tc\n3\t\t4"

\* C13: toggling the same index twice gives back the selection it started
\* from, for every selection and every index; one toggle flips the
\* membership of that index and of no other.
C13_ToggleTwice ==
  \A index \in 0..(MaxRecords - 1) :
    LET once == ToggleSet(selectedRows, index)
    IN  /\ ToggleSet(once, index) = selectedRows
        /\ (index \in once) = (index \notin selectedRows)
        /\ \A other \in 0..(MaxRecords - 1) :
             other # index => ((other \in once) = (other \in selectedRows))

\* C13 witness: a selection that toggles have filled
C13_Witness == Rendered /\ selectedRows = 0..(MaxRecords - 1)

\* C14: for results that are empty or null the component gives no output:
\* no header row, no copy button, no rows; nothing is copied and nothing is
\* toggled while results is empty.
C14_EmptyNoOutput ==
  /\ [](/\ RenderTable(NullProp) = NoOutput
        /\ Len(results) = 0 =>
             /\ RenderTable(ArrayProp(results)) = NoOutput
             /\ ~Rendered)
  /\ [][Len(results) = 0 => (~tsvContent'.written /\ selectedRows' = selectedRows)]_vars

\* C14 witness: results emptied again after a table was shown and copied from
C14_Witness == Len(results) = 0 /\ selectedRows # {} /\ ~Rendered

\* the object has a field of that name, whatever its value
HasField(v, key) == \E k \in 1..Len(v.fields) : v.fields[k][1] = key

\* the position of the first array-valued field of an object, 0 without one
FirstArrayPos(v) ==
  IF \E k \in 1..Len(v.fields) : IsArray(v.fields[k][2])
  THEN CHOOSE k \in 1..Len(v.fields) :
         /\ IsArray(v.fields[k][2])
         /\ \A q \in 1..(k - 1) : ~IsArray(v.fields[q][2])
  ELSE 0

\* the priority chain as the spec words it, for a parsed value v: whether
\* one of its cases applies and the collection it names.  firstOk says
\* whether a first array-valued field is taken, wraps whether the object
\* counts as a single story.
ChainChoice(v, firstOk, wraps) ==
  IF IsArray(v) THEN [applies |-> TRUE, stories |-> v.items]
  ELSE IF v.t # "object" THEN [applies |-> FALSE, stories |-> <<>>]
  ELSE IF HasField(v, "userStories") /\ IsArray(Get(v, "userStories"))
       THEN [applies |-> TRUE, stories |-> Get(v, "userStories").items]
  ELSE IF HasField(v, "requirements") /\ IsArray(Get(v, "requirements"))
       THEN [applies |-> TRUE, stories |-> Get(v, "requirements").items]
  ELSE IF FirstArrayPos(v) # 0 /\ firstOk
       THEN [applies |-> TRUE, stories |-> v.fields[FirstArrayPos(v)][2].items]
  ELSE IF wraps THEN [applies |-> TRUE, stories |-> <<v>>]
  ELSE [applies |-> FALSE, stories |-> <<>>]

\* the chain read literally: any first array-valued field is taken, and an
\* object that has one of the three fields is a story
LiteralChoice(v) ==
  ChainChoice(v, TRUE,
              v.t = "object" /\ \E key \in {"epicName", "requirement", "userStory"} :
                                  HasField(v, key))

\* the chain of the code: the first array-valued field is taken unless its
\* name is empty, and an object is a story when one of the three fields
\* holds a truthy value
TruthyChoice(v) ==
  ChainChoice(v, v.t = "object" /\ FirstArrayPos(v) # 0
                   /\ v.fields[FirstArrayPos(v)][1] # "",
              v.t = "object" /\ \E key \in {"epicName", "requirement", "userStory"} :
                                  HasField(v, key) /\ Truthy(Get(v, key)))

\* the handler has answered a completion that was JSON text
Answered == routePc = "done" /\ content.kind = "json"

C16_NoShapeError ==
  (Answered /\ ~TruthyChoice(content.value).applies) => response = Success(<<>>)

\* C17: at most one extract-requirements request is in flight at any time;
\* no second submission starts before the first has settled, the file-read
\* step before setLoading(true) included.
C17_OneInFlight ==
  /\ Cardinality({id \in 1..Len(calls) : calls[id].phase = "fetching"}) <= 1
  /\ Cardinality({id \in 1..Len(calls) : Active(calls[id])}) <= 1

\* C18: starting an extraction discards the previous results: while a call
\* of handleExtractUserStories has not had its response decoded, results is
\* empty, and after the call failed or was abandoned results is still
\* empty.
C18_ResultsDiscarded ==
  /\ (\E id \in 1..Len(calls) : Active(calls[id])) => results = <<>>
  /\ (Len(calls) > 0 /\ calls[Len(calls)].phase \in {"failed", "abandoned"})
       => results = <<>>

\* the loop is about to handle a line
AtLine == pc = "loop" /\ LoopGuard(i, lines)

\* the line the next iteration handles, and the line before it in the input
CurLine == Trim(lines[i + 1])
PrevLine == Trim(lines[i])

\* C19: a suppression set by an identifier or timing line is used up by the
\* very next input line only: a plain text line that does not come directly
\* after an identifier or timing line is always appended, blank and header
\* lines in between carrying nothing forward.
C19_SuppressionOneLine ==
  [][(/\ AtLine
      /\ LineKind(CurLine) = "text"
      /\ (i = 0 \/ LineKind(PrevLine) \notin {"id", "timestamp"}))
       => transcriptLines' = Append(transcriptLines, CurLine)]_vars

\* C20 read for every line that starts with the voice-tag opener: the step
\* on it appends its inner text whatever skipNext is and leaves skipNext
\* false, and a plain line right after it is appended.
C20_VoiceNeverSuppressed ==
  [][/\ (AtLine /\ IsVoiceLine(CurLine))
         => /\ transcriptLines' = transcriptLines \o VoicePush(CurLine)
            /\ skipNext' = FALSE
     /\ (AtLine /\ i > 0 /\ IsVoiceLine(PrevLine) /\ LineKind(CurLine) = "text")
         => transcriptLines' = Append(transcriptLines, CurLine)]_vars

\* a line the voice branch handles: it starts with the opener, has fewer
\* than three hyphens and no "-->"
ReachesVoiceBranch(line) ==
  IsVoiceLine(line) /\ ~IsIdLine(line) /\ ~IsTimestampLine(line)

\* C20, as the code has it: a line that starts with the voice-tag opener
\* and is neither an identifier line nor a timing line is never suppressed
\* by skipNext: its inner text, when the tag matches and the text is not
\* empty, is appended whether or not the line before was an identifier or
\* timing line; after it skipNext is false and a plain line that follows
\* is appended.
C20_VoiceBranchNeverSuppressed ==
  [][/\ (AtLine /\ ReachesVoiceBranch(CurLine))
         => /\ transcriptLines' = transcriptLines \o VoicePush(CurLine)
            /\ skipNext' = FALSE
            /\ CurLine = "<v A>Hi.</v>" => transcriptLines' = Append(transcriptLines, "Hi.")
     /\ (AtLine /\ i > 0 /\ ReachesVoiceBranch(PrevLine) /\ LineKind(CurLine) = "text")
         => (~skipNext /\ transcriptLines' = Append(transcriptLines, CurLine))]_vars

\* C20 witness: a voice line right after a timing line was kept, and so was
\* the plain line after it
C20_Witness ==
  /\ lines = <<"00:01 --> 00:02", "<v A>Hi.</v>", "Bye.">>
  /\ i = 3
  /\ transcriptLines = <<"Hi.", "Bye.">>

\* the number of segments line.split('-') gives
Segments(line) == Len(Split(line, "-"))

\* C21: classification is by fixed precedence: a non-blank line that splits
\* on '-' into at least 4 segments is a cue identifier, adds nothing to the
\* output and sets skipNext, also when it contains "-->" or starts with a
\* voice tag; a line with "-->" and fewer than 4 segments is a timing line,
\* discarded with skipNext set.
C21_Precedence ==
  [][(AtLine /\ CurLine # ""
        /\ (Segments(CurLine) >= 4 \/ Includes(CurLine, "-->")))
       => (transcriptLines' = transcriptLines /\ skipNext' = TRUE)]_vars

\* C21 witness: a line that starts with a voice tag and has four segments
\* has been taken as an identifier
C21_Witness ==
  /\ lines = <<"<v A>a-b-c-d</v>">>
  /\ i = 1
  /\ skipNext
  /\ transcriptLines = <<>>

\* the string parseVTT returned
Out == cleanedTranscript

IsLowerLetter(c) == c \in CharsOf(LowerLetters)

\* C22: in every string parseVTT returns no whitespace character stands
\* directly before a sentence punctuation character (. , ! ? ; :), also
\* where punctuation characters follow one another in the input.
C22_NoSpaceBeforePunct ==
  Returned =>
    \A p \in 2..Len(Out) : IsPunct(Ch(Out, p)) => ~IsSpace(Ch(Out, p - 1))

\* C23: in every string parseVTT returns each sentence punctuation
\* character that is not the last character is followed by exactly one
\* space, each character of a run of punctuation included.
C23_OneSpaceAfterPunct ==
  Returned =>
    \A p \in 1..(Len(Out) - 1) :
      IsPunct(Ch(Out, p)) =>
        /\ Ch(Out, p + 1) = " "
        /\ p + 2 <= Len(Out) => ~IsSpace(Ch(Out, p + 2))

\* C24: in every string parseVTT returns the first character, when it is a
\* letter, is upper case, and so is every letter directly after ". ", also
\* when the assembled text began with a tag or whitespace removed later.
C24_Capitalised ==
  Returned =>
    /\ Out # "" => ~IsLowerLetter(Ch(Out, 1))
    /\ \A p \in 1..(Len(Out) - 2) :
         SubSeq(Out, p, p + 1) = ". " => ~IsLowerLetter(Ch(Out, p + 2))

\* C25: every string parseVTT returns has no leading or trailing
\* whitespace, no whitespace character other than the space, and no two
\* spaces in a row.
C25_WhitespaceNormalForm ==
  Returned =>
    /\ Out # "" => (~IsSpace(Ch(Out, 1)) /\ ~IsSpace(Ch(Out, Len(Out))))
    /\ \A p \in 1..Len(Out) : IsSpace(Ch(Out, p)) => Ch(Out, p) = " "
    /\ \A p \in 1..(Len(Out) - 1) : ~(Ch(Out, p) = " " /\ Ch(Out, p + 1) = " ")

\* C25 witness: an input with a run of spaces inside and a space at its end
\* came out with single spaces
C25_Witness ==
  /\ Returned
  /\ vttContent = "a  -"
  /\ Out = "A -"

\* C26: in the page with preloaded files, file input and text input exclude
\* each other: whatever uploads, ticks and loads of preloaded files, text
\* changes, removals and clears have happened, it is never so that a file
\* is loaded while the text input is not blank.
C26_FileXorText == ~(Len(uploadedFiles) > 0 /\ Trim(textInput) # "")

\* a call whose request is outstanding
Fetching(id) == id \in 1..Len(calls) /\ calls[id].phase = "fetching"

\* C27: when the responses of two extractions arrive in any order, the
\* results shown are those of the extraction started last: the response to
\* a request started earlier never replaces the results or usage of one
\* started later.
C27_LastStartedWins ==
  [][\A id \in 1..Len(calls) :
       (/\ Fetching(id)
        /\ calls'[id].phase = "done"
        /\ \E later \in (id + 1)..Len(calls) : calls[later].phase = "done")
         => (results' = results /\ usage' = usage)]_vars

\* C28: after any toggles and replacements of results every selected index
\* is an index of the current results (a selection does not outlive the
\* collection it was made on), so an export with a non-empty selection
\* holds at least one data row.
C28_SelectionValid ==
  /\ \A index \in selectedRows : index \in 0..(Len(results) - 1)
  /\ (tsvContent.written /\ selectedRows # {})
       => Len(RowsToCopy(results, selectedRows)) >= 1

\* C29: with a file loaded, a click on Extract User Stories ends with a
\* request sent or with an error message set, never with the results
\* cleared, nothing sent and nothing shown.
C29_RequestOrError ==
  [][\A id \in 1..Len(calls) :
       (calls[id].phase = "reading" /\ calls'[id].phase = "abandoned") => error' # ""]_vars

\* C30: an extraction that sets loading to true sets it back to false once
\* its request settles, whether it is answered or fails, and loading is
\* never true with no request outstanding.
C30_LoadingReset ==
  /\ [](loading => \E id \in 1..Len(calls) : Fetching(id))
  /\ \A id \in 1..MaxCalls : (Fetching(id) ~> (~Fetching(id) /\ ~loading))

\* C30 witness: a request failed and loading is false again
C30_Witness ==
  /\ \E id \in 1..Len(calls) : calls[id].phase = "failed"
  /\ ~loading
  /\ error = ErrorProcess

====
